---- MODULE Spec2Model ----
(***************************************************************************)
(* Quantization descriptors of src/common/primitive_attr_quant.hpp:        *)
(* quant_entry_t (one descriptor with a native, a scale and a zero-point   *)
(* channel), quant_entries_t (the map from argument id to descriptor) and  *)
(* its two policies scales_t and zero_points_t.                            *)
(*                                                                         *)
(* SpecEntry drives two free quant_entry_t objects through the             *)
(* descriptor's own setters and through set(other); SpecSet drives one     *)
(* scales_t or zero_points_t object through the container's mutators.      *)
(***************************************************************************)
EXTENDS Integers, Sequences, FiniteSets, Bags, TLC

VARIABLES objs, policy, entries, last, nops, calls

vars == <<objs, policy, entries, last, nops, calls>>

(***************************************************************************)
(* Bounds of the model.                                                    *)
(***************************************************************************)
\* Capacity of a dims_t array in the model (DNNL_MAX_NDIMS in the program).
MaxNdims == 2
\* Number of mutator calls in one behaviour of SpecEntry / of SpecSet.
MaxEntryOps == 2
MaxSetOps == 2

(***************************************************************************)
(* Program constants.                                                      *)
(***************************************************************************)
INT_MIN == (-2147483647) - 1

DNNL_ARG_SRC == 1
DNNL_ARG_SRC_1 == 2
DNNL_ARG_SRC_2 == 3
DNNL_ARG_DST == 17
DNNL_ARG_WEIGHTS == 33
DNNL_ARG_MULTIPLE_SRC == 1024
DNNL_ARG_ATTR_POST_OP_DW == 16384

\* enum entry_type
NONE == 0
DNNL == 1
OV_SCALES == 2
OV_ZERO_POINTS == 4

(***************************************************************************)
(* Input domains of the calls.                                             *)
(***************************************************************************)
DimIdx == 0 .. (MaxNdims - 1)
\* The sizes a dims_t argument starts with: the argument of rank nd that starts
\* with v is v, v + 1, ..., so that no two positions hold the same size.
DimVals == {2, 4}
Masks == {1, 2}
DataTypes == {"f32", "s8"}
\* The data type the container's setters are called with; f32 and s32 reach
\* the container as the policies' default_data_type_ through set(arg, mask).
SetDataTypes == {"s8"}
Ranks == 0 .. MaxNdims
ZeroDims == [i \in DimIdx |-> 0]
\* The dims_t arguments of rank nd: nd sizes, the rest of the array zero
\* (only the first nd elements are ever read).
DimsOfRank(nd) ==
    IF nd = 0 THEN {ZeroDims}
    ELSE {[i \in DimIdx |-> IF i < nd THEN v + i ELSE 0] : v \in DimVals}

(***************************************************************************)
(* Helpers of common/utils.hpp.                                            *)
(***************************************************************************)
\* utils::array_copy(dst, src, n): the first n elements of src over dst.
array_copy(dst, src, n) == [i \in DimIdx |-> IF i < n THEN src[i] ELSE dst[i]]

\* utils::array_cmp(a, b, n): the first n elements agree.
array_cmp(a1, a2, n) == \A i \in DimIdx : i < n => a1[i] = a2[i]

\* type_ | bit, for a single-bit value of entry_type.
BitSet(t, bit) == (t \div bit) % 2 = 1
BitOr(t, bit) == IF BitSet(t, bit) THEN t ELSE t + bit

(***************************************************************************)
(* quant_entry_t                                                           *)
(***************************************************************************)
\* A default-constructed quant_entry_t: the member initializers.
QuantEntryNew ==
    [ data_type_ |-> "undef", group_ndims_ |-> 0, group_dims_ |-> ZeroDims,
      mask_ |-> INT_MIN, is_set_ |-> FALSE, type_ |-> NONE,
      is_set_scale |-> FALSE, ndims_scale |-> 0, mask_scale |-> INT_MIN,
      dims_scale |-> ZeroDims, data_type_scale |-> "undef",
      is_set_wei |-> FALSE, ndims_wei |-> 0, mask_wei |-> INT_MIN,
      dims_wei |-> ZeroDims, data_type_wei |-> "s32" ]

\* default_quant_entry(): the process-wide all-unset instance.
default_quant_entry == QuantEntryNew

\* status_t set(int mask, data_type_t data_type, int group_ndims,
\*              const dims_t group_dims)
EntrySet(e, mask, data_type, group_ndims, group_dims) ==
    [e EXCEPT !.type_ = BitOr(e.type_, DNNL),
              !.is_set_ = TRUE,
              !.mask_ = mask,
              !.data_type_ = data_type,
              !.group_ndims_ = group_ndims,
              !.group_dims_ = IF group_ndims > 0
                              THEN array_copy(e.group_dims_, group_dims, group_ndims)
                              ELSE e.group_dims_]

\* EntrySetScales with type_ assigned instead of OR-ed.
EntrySetScales_Overwrites(e, dims, ndims, data_type, mask) ==
    [e EXCEPT !.type_ = OV_SCALES,
              !.is_set_scale = TRUE,
              !.ndims_scale = ndims,
              !.mask_scale = mask,
              !.data_type_scale = data_type,
              !.dims_scale = IF ndims > 0
                             THEN array_copy(e.dims_scale, dims, ndims)
                             ELSE e.dims_scale]

\* status_t set_scales(const dims_t dims, int ndims, data_type_t data_type,
\*                     int mask)
EntrySetScales(e, dims, ndims, data_type, mask) ==
    [e EXCEPT !.type_ = BitOr(e.type_, OV_SCALES),
              !.is_set_scale = TRUE,
              !.ndims_scale = ndims,
              !.mask_scale = mask,
              !.data_type_scale = data_type,
              !.dims_scale = IF ndims > 0
                             THEN array_copy(e.dims_scale, dims, ndims)
                             ELSE e.dims_scale]

\* EntrySetZeroPoints that also writes the native group shape, as the grouped
\* setter does.
EntrySetZeroPoints_WritesGroup(e, dims, ndims, data_type) ==
    [e EXCEPT !.type_ = BitOr(e.type_, OV_ZERO_POINTS),
              !.is_set_wei = TRUE,
              !.ndims_wei = ndims,
              !.mask_wei = 1,
              !.dims_wei = IF ndims > 0
                           THEN array_copy(e.dims_wei, dims, ndims)
                           ELSE e.dims_wei,
              !.group_ndims_ = IF ndims > 0 THEN ndims ELSE e.group_ndims_,
              !.group_dims_ = IF ndims > 0
                              THEN array_copy(e.group_dims_, dims, ndims)
                              ELSE e.group_dims_,
              !.data_type_wei = data_type]

\* status_t set_zero_points(const dims_t dims, int ndims, data_type_t data_type)
EntrySetZeroPoints(e, dims, ndims, data_type) ==
    [e EXCEPT !.type_ = BitOr(e.type_, OV_ZERO_POINTS),
              !.is_set_wei = TRUE,
              !.ndims_wei = ndims,
              !.mask_wei = 1,
              !.dims_wei = IF ndims > 0
                           THEN array_copy(e.dims_wei, dims, ndims)
                           ELSE e.dims_wei,
              !.data_type_wei = data_type]

\* status_t set_zero_points(const dims_t dims, int ndims, data_type_t data_type,
\*                          int mask): the grouped setter.
EntrySetZeroPointsGrouped(e, dims, ndims, data_type, mask) ==
    [e EXCEPT !.type_ = BitOr(e.type_, DNNL),
              !.is_set_wei = TRUE,
              !.ndims_wei = ndims,
              !.mask_wei = mask,
              !.dims_wei = IF ndims > 0
                           THEN array_copy(e.dims_wei, dims, ndims)
                           ELSE e.dims_wei,
              !.group_ndims_ = IF ndims > 0 THEN ndims ELSE e.group_ndims_,
              !.group_dims_ = IF ndims > 0
                              THEN array_copy(e.group_dims_, dims, ndims)
                              ELSE e.group_dims_,
              !.data_type_wei = data_type]

\* EntryAssign with the copy of mask_scale left out.
EntryAssign_NoScaleMask(e, other) ==
    [e EXCEPT !.type_ = other.type_,
              !.is_set_ = other.is_set_,
              !.mask_ = other.mask_,
              !.data_type_ = other.data_type_,
              !.group_ndims_ = other.group_ndims_,
              !.group_dims_ = IF other.group_ndims_ > 0
                              THEN array_copy(e.group_dims_, other.group_dims_,
                                              other.group_ndims_)
                              ELSE e.group_dims_,
              !.is_set_scale = other.is_set_scale,
              !.data_type_scale = other.data_type_scale,
              !.ndims_scale = other.ndims_scale,
              !.is_set_wei = other.is_set_wei,
              !.mask_wei = other.mask_wei,
              !.data_type_wei = other.data_type_wei,
              !.ndims_wei = other.ndims_wei]

\* status_t set(const quant_entry_t &other), also operator=.  The native group
\* shape is copied with array_copy; for the scale and the zero-point dims the
\* code calls array_cmp, whose result is dropped: those arrays are not written.
EntryAssign(e, other) ==
    [e EXCEPT !.type_ = other.type_,
              !.is_set_ = other.is_set_,
              !.mask_ = other.mask_,
              !.data_type_ = other.data_type_,
              !.group_ndims_ = other.group_ndims_,
              !.group_dims_ = IF other.group_ndims_ > 0
                              THEN array_copy(e.group_dims_, other.group_dims_,
                                              other.group_ndims_)
                              ELSE e.group_dims_,
              !.is_set_scale = other.is_set_scale,
              !.mask_scale = other.mask_scale,
              !.data_type_scale = other.data_type_scale,
              !.ndims_scale = other.ndims_scale,
              !.is_set_wei = other.is_set_wei,
              !.mask_wei = other.mask_wei,
              !.data_type_wei = other.data_type_wei,
              !.ndims_wei = other.ndims_wei]

\* operator== comparing the whole arrays, whatever the ranks.
EntryEq_WholeArrays(e, rhs) ==
    /\ e.type_ = rhs.type_ /\ e.is_set_ = rhs.is_set_
    /\ e.mask_ = rhs.mask_
    /\ e.data_type_ = rhs.data_type_
    /\ e.group_ndims_ = rhs.group_ndims_
    /\ e.group_dims_ = rhs.group_dims_
    /\ e.is_set_scale = rhs.is_set_scale
    /\ e.mask_scale = rhs.mask_scale
    /\ e.data_type_scale = rhs.data_type_scale
    /\ e.ndims_scale = rhs.ndims_scale
    /\ e.dims_scale = rhs.dims_scale
    /\ e.is_set_wei = rhs.is_set_wei
    /\ e.mask_wei = rhs.mask_wei
    /\ e.data_type_wei = rhs.data_type_wei
    /\ e.ndims_wei = rhs.ndims_wei
    /\ e.dims_wei = rhs.dims_wei

\* bool operator==(const quant_entry_t &rhs) const
EntryEq(e, rhs) ==
    /\ e.type_ = rhs.type_ /\ e.is_set_ = rhs.is_set_
    /\ e.mask_ = rhs.mask_
    /\ e.data_type_ = rhs.data_type_
    /\ e.group_ndims_ = rhs.group_ndims_
    /\ (e.group_ndims_ > 0
          => array_cmp(e.group_dims_, rhs.group_dims_, e.group_ndims_))
    /\ e.is_set_scale = rhs.is_set_scale
    /\ e.mask_scale = rhs.mask_scale
    /\ e.data_type_scale = rhs.data_type_scale
    /\ e.ndims_scale = rhs.ndims_scale
    /\ (e.ndims_scale > 0
          => array_cmp(e.dims_scale, rhs.dims_scale, e.ndims_scale))
    /\ e.is_set_wei = rhs.is_set_wei
    /\ e.mask_wei = rhs.mask_wei
    /\ e.data_type_wei = rhs.data_type_wei
    /\ e.ndims_wei = rhs.ndims_wei
    /\ (e.ndims_wei > 0
          => array_cmp(e.dims_wei, rhs.dims_wei, e.ndims_wei))

\* bool has_default_values() const
EntryHasDefaultValues(e) == EntryEq(e, default_quant_entry)

\* bool has_default_groups() const
EntryHasDefaultGroups(e) == e.group_ndims_ = default_quant_entry.group_ndims_

\* get_mask with the native channel asked before the zero-point channel.
get_mask_NativeFirst(e) ==
    IF e.is_set_ THEN e.mask_
    ELSE IF e.is_set_wei THEN e.mask_wei
    ELSE IF e.is_set_scale THEN e.mask_scale
    ELSE INT_MIN

\* int get_mask() const
get_mask(e) ==
    IF e.is_set_wei THEN e.mask_wei
    ELSE IF e.is_set_ THEN e.mask_
    ELSE IF e.is_set_scale THEN e.mask_scale
    ELSE INT_MIN

\* data_type_t get_data_type() const
get_data_type(e) ==
    IF e.is_set_wei THEN e.data_type_wei
    ELSE IF e.is_set_ THEN e.data_type_
    ELSE IF e.is_set_scale THEN e.data_type_scale
    ELSE "undef"

\* const dims_t &get_dims() const
get_dims(e) ==
    IF e.is_set_wei THEN e.dims_wei
    ELSE IF e.is_set_ THEN e.group_dims_
    ELSE IF e.is_set_scale THEN e.dims_scale
    ELSE ZeroDims

\* int get_ndims() const
get_ndims(e) ==
    IF e.is_set_wei THEN e.ndims_wei
    ELSE IF e.is_set_ THEN e.group_ndims_
    ELSE IF e.is_set_scale THEN e.ndims_scale
    ELSE 0

\* get_group without the "groups were not requested" case.
get_group_NoDefault(e, d) ==
    IF d >= e.group_ndims_ THEN 0 ELSE e.group_dims_[d]

\* dim_t get_group(int d) const, for 0 <= d.  An index at or beyond the
\* array's capacity is only ever asked for when it is also >= group_ndims_.
get_group(e, d) ==
    IF e.group_ndims_ = default_quant_entry.group_ndims_ THEN 1
    ELSE IF d >= e.group_ndims_ THEN 0
    ELSE e.group_dims_[d]

(***************************************************************************)
(* quant_entries_t and its policies scales_t, zero_points_t                *)
(***************************************************************************)
Policies == {"scales", "zero_points"}

\* arg & DNNL_ARG_MULTIPLE_SRC, for 0 <= arg
HasMultipleSrcBit(arg) == (arg \div DNNL_ARG_MULTIPLE_SRC) % 2 = 1

\* bool scales_t::check_arg(int arg) const
ScalesCheckArg(arg) ==
    \/ arg \in {DNNL_ARG_SRC, DNNL_ARG_WEIGHTS, DNNL_ARG_DST}
    \/ arg \in {DNNL_ARG_SRC_1}
    \/ HasMultipleSrcBit(arg)
    \/ \E sa \in {DNNL_ARG_SRC, DNNL_ARG_WEIGHTS, DNNL_ARG_DST} :
          arg = DNNL_ARG_ATTR_POST_OP_DW + sa
    \/ arg = DNNL_ARG_SRC_2

\* zero_points_t::check_arg with the "binary" clause of scales_t::check_arg.
ZeroPointsCheckArg_AlsoSrc1(arg) ==
    \/ arg \in {DNNL_ARG_SRC, DNNL_ARG_WEIGHTS, DNNL_ARG_DST}
    \/ arg \in {DNNL_ARG_SRC_1}
    \/ arg = DNNL_ARG_SRC_2

\* bool zero_points_t::check_arg(int arg) const
ZeroPointsCheckArg(arg) ==
    \/ arg \in {DNNL_ARG_SRC, DNNL_ARG_WEIGHTS, DNNL_ARG_DST}
    \/ arg = DNNL_ARG_SRC_2

\* virtual bool check_arg(int arg) const, dispatched on the object's type
check_arg(p, arg) ==
    IF p = "scales" THEN ScalesCheckArg(arg) ELSE ZeroPointsCheckArg(arg)

\* static constexpr data_type_t default_data_type_
default_data_type(p) == IF p = "scales" THEN "f32" ELSE "s32"

\* entries_[arg]: the stored descriptor, default-constructed when absent
Slot(m, arg) == IF arg \in DOMAIN m THEN m[arg] ELSE QuantEntryNew

\* entries_[arg] = v
Put(m, arg, v) == [k \in (DOMAIN m) \cup {arg} |-> IF k = arg THEN v ELSE m[k]]

\* const quant_entry_t &get(int arg) const
get(m, arg) == IF arg \in DOMAIN m THEN m[arg] ELSE default_quant_entry

\* quant_entries_t::set(arg, mask, data_type, group_ndims, group_dims):
\* <<status, entries_>> after the call
BaseSet(p, m, arg, mask, data_type, group_ndims, group_dims) ==
    IF ~check_arg(p, arg) THEN <<"invalid_arguments", m>>
    ELSE <<"success",
           Put(m, arg, EntrySet(Slot(m, arg), mask, data_type,
                                group_ndims, group_dims))>>

\* zero_points_t::set(arg, mask, data_type, group_ndims, group_dims) override
ZeroPointsSet(p, m, arg, mask, data_type, group_ndims, group_dims) ==
    IF ~check_arg(p, arg) THEN <<"invalid_arguments", m>>
    ELSE IF arg = DNNL_ARG_WEIGHTS
    THEN <<"success",
           Put(m, arg, EntrySetZeroPointsGrouped(Slot(m, arg), group_dims,
                                                 group_ndims, data_type, mask))>>
    ELSE <<"success",
           Put(m, arg, EntrySet(Slot(m, arg), mask, data_type,
                                group_ndims, group_dims))>>

\* the virtual set(arg, mask, data_type, group_ndims, group_dims)
VirtualSet(p, m, arg, mask, data_type, group_ndims, group_dims) ==
    IF p = "scales"
    THEN BaseSet(p, m, arg, mask, data_type, group_ndims, group_dims)
    ELSE ZeroPointsSet(p, m, arg, mask, data_type, group_ndims, group_dims)

\* set(int arg, int mask): quant_entries_t's calls the virtual set;
\* zero_points_t's own overload calls quant_entries_t::set by qualified name.
SetMask(p, m, arg, mask) ==
    IF p = "scales"
    THEN VirtualSet(p, m, arg, mask, default_data_type(p), 0, ZeroDims)
    ELSE BaseSet(p, m, arg, mask, default_data_type(p), 0, ZeroDims)

\* set(arg, other) that erases the key when other has default values.
AssignEntry_ErasesDefault(m, arg, other) ==
    IF EntryHasDefaultValues(other)
    THEN <<"success", [k \in (DOMAIN m) \ {arg} |-> m[k]]>>
    ELSE <<"success", Put(m, arg, EntryAssign(Slot(m, arg), other))>>

\* quant_entries_t::set(int arg, const quant_entry_t &other)
AssignEntry(m, arg, other) ==
    <<"success", Put(m, arg, EntryAssign(Slot(m, arg), other))>>

\* set_scales without the check_arg gate.
SetScales_NoGate(p, m, arg, dims, ndims, data_type) ==
    <<"success",
      Put(m, arg, EntrySetScales(Slot(m, arg), dims, ndims, data_type, 1))>>

\* quant_entries_t::set_scales(arg, dims, ndims, data_type)
SetScales(p, m, arg, dims, ndims, data_type) ==
    IF ~check_arg(p, arg) THEN <<"invalid_arguments", m>>
    ELSE <<"success",
           Put(m, arg, EntrySetScales(Slot(m, arg), dims, ndims, data_type, 1))>>

\* set_zero_points without the test of arg.
SetZeroPoints_NoGuard(m, arg, dims, ndims, data_type) ==
    <<"success",
      Put(m, arg, EntrySetZeroPoints(Slot(m, arg), dims, ndims, data_type))>>

\* quant_entries_t::set_zero_points(arg, dims, ndims, data_type)
SetZeroPoints(m, arg, dims, ndims, data_type) ==
    IF arg # DNNL_ARG_WEIGHTS THEN <<"unimplemented", m>>
    ELSE <<"success",
           Put(m, arg, EntrySetZeroPoints(Slot(m, arg), dims, ndims, data_type))>>

\* The predicates handed to has_default_property: the lambdas calling
\* s.has_default_values() and s.has_default_groups().
ApplyPredicate(predicate, e) ==
    IF predicate = "values" THEN EntryHasDefaultValues(e)
    ELSE EntryHasDefaultGroups(e)

MinKey(keys) == CHOOSE k \in keys : \A j \in keys : k <= j

\* The loop of has_default_property over the entries still to visit, in the
\* map's key order; supported_args is the vector, searched front to back.
RECURSIVE HasDefaultLoop(_, _, _, _)
HasDefaultLoop(m, keys, supported_args, predicate) ==
    IF keys = {} THEN TRUE
    ELSE LET k == MinKey(keys)
             allow_non_default ==
                 \E idx \in 1 .. Len(supported_args) : supported_args[idx] = k
         IN  IF ApplyPredicate(predicate, m[k])
             THEN HasDefaultLoop(m, keys \ {k}, supported_args, predicate)
             ELSE IF allow_non_default
             THEN HasDefaultLoop(m, keys \ {k}, supported_args, predicate)
             ELSE FALSE

\* has_default_property that never looks at supported_args.
has_default_property_NoExempt(m, supported_args, predicate) ==
    HasDefaultLoop(m, DOMAIN m, <<>>, predicate)

\* bool has_default_property(supported_args, predicate) const
has_default_property(m, supported_args, predicate) ==
    HasDefaultLoop(m, DOMAIN m, supported_args, predicate)

\* bool has_default_values(const std::vector<int> &supported_args) const
has_default_values(m, supported_args) ==
    has_default_property(m, supported_args, "values")

\* bool has_default_groups(const std::vector<int> &supported_args) const
has_default_groups(m, supported_args) ==
    has_default_property(m, supported_args, "groups")

\* bool quant_entries_t::operator==(rhs): std::map equality, which compares
\* the keys and, per key, the descriptors with quant_entry_t::operator==
EntriesEq(m1, m2) ==
    /\ DOMAIN m1 = DOMAIN m2
    /\ \A k \in DOMAIN m1 : EntryEq(m1[k], m2[k])

(***************************************************************************)
(* Serialization.  The stream is a sequence of integers; an entry is        *)
(* written as the channel bitset, then per channel (native, scale,          *)
(* zero-point) its flag, mask, data type and its dims prefixed by the rank. *)
(***************************************************************************)
\* data_type_t as written to the stream (the values of dnnl_data_type_t)
DataTypeCode(dt) ==
    CASE dt = "undef" -> 0 [] dt = "f32" -> 3 [] dt = "s32" -> 4 [] dt = "s8" -> 5

DataTypeOfCode(c) ==
    CASE c = 0 -> "undef" [] c = 3 -> "f32" [] c = 4 -> "s32" [] c = 5 -> "s8"
      [] OTHER -> "invalid"

BoolCode(f) == IF f THEN 1 ELSE 0

\* sstream.append_array(ndims, dims): the rank, then the first rank sizes
AppendArray(ndims, dims) == <<ndims>> \o [i \in 1 .. ndims |-> dims[i - 1]]

\* void quant_entry_t::serialize(serialization_stream_t &sstream) const
SerializeEntry(e) ==
    <<e.type_>>
    \o <<BoolCode(e.is_set_), e.mask_, DataTypeCode(e.data_type_)>>
    \o AppendArray(e.group_ndims_, e.group_dims_)
    \o <<BoolCode(e.is_set_scale), e.mask_scale, DataTypeCode(e.data_type_scale)>>
    \o AppendArray(e.ndims_scale, e.dims_scale)
    \o <<BoolCode(e.is_set_wei), e.mask_wei, DataTypeCode(e.data_type_wei)>>
    \o AppendArray(e.ndims_wei, e.dims_wei)

\* One channel read at position pos: flag, mask, data type, rank, sizes.
\* ok is FALSE for a stream that ends early, a flag that is no boolean, an
\* unknown data type or a rank outside 0 .. MaxNdims.
ReadChannel(s, pos) ==
    IF pos + 3 > Len(s) THEN [ok |-> FALSE]
    ELSE LET nd == s[pos + 3]
         IN  IF \/ s[pos] \notin {0, 1}
                \/ DataTypeOfCode(s[pos + 2]) = "invalid"
                \/ nd < 0 \/ nd > MaxNdims
                \/ pos + 3 + nd > Len(s)
             THEN [ok |-> FALSE]
             ELSE [ok |-> TRUE, flag |-> (s[pos] = 1), mask |-> s[pos + 1],
                   data_type |-> DataTypeOfCode(s[pos + 2]), ndims |-> nd,
                   dims |-> [i \in DimIdx |->
                                IF i < nd THEN s[pos + 4 + i] ELSE 0],
                   next |-> pos + 4 + nd]

\* static quant_entry_t quant_entry_t::deserialize(deserializer_t &d), reading
\* at position pos: [ok, value, next]
DeserializeEntryAt(s, pos) ==
    IF pos > Len(s) \/ s[pos] \notin 0 .. 7 THEN [ok |-> FALSE]
    ELSE LET n == ReadChannel(s, pos + 1)
         IN  IF ~n.ok THEN [ok |-> FALSE]
             ELSE LET sc == ReadChannel(s, n.next)
                  IN  IF ~sc.ok THEN [ok |-> FALSE]
                      ELSE LET w == ReadChannel(s, sc.next)
                           IN  IF ~w.ok THEN [ok |-> FALSE]
                               ELSE [ok |-> TRUE, next |-> w.next,
                                     value |->
    [ data_type_ |-> n.data_type, group_ndims_ |-> n.ndims,
      group_dims_ |-> n.dims, mask_ |-> n.mask, is_set_ |-> n.flag,
      type_ |-> s[pos],
      is_set_scale |-> sc.flag, ndims_scale |-> sc.ndims,
      mask_scale |-> sc.mask, dims_scale |-> sc.dims,
      data_type_scale |-> sc.data_type,
      is_set_wei |-> w.flag, ndims_wei |-> w.ndims, mask_wei |-> w.mask,
      dims_wei |-> w.dims, data_type_wei |-> w.data_type ]]

DeserializeEntry(s) == DeserializeEntryAt(s, 1)

\* void quant_entries_t::serialize(serialization_stream_t &sstream) const:
\* the number of entries, then each key and its entry in key order
RECURSIVE SerializeKeys(_, _)
SerializeKeys(m, keys) ==
    IF keys = {} THEN <<>>
    ELSE LET k == MinKey(keys)
         IN  <<k>> \o SerializeEntry(m[k]) \o SerializeKeys(m, keys \ {k})

SerializeEntries(m) == <<Cardinality(DOMAIN m)>> \o SerializeKeys(m, DOMAIN m)

\* scales_t::deserialize / zero_points_t::deserialize: n more entries read at
\* pos, each stored in m under its key as read
RECURSIVE DeserializeKeys(_, _, _, _)
DeserializeKeys(s, pos, n, m) ==
    IF n = 0 THEN [ok |-> TRUE, value |-> m]
    ELSE IF pos > Len(s) THEN [ok |-> FALSE]
    ELSE LET r == DeserializeEntryAt(s, pos + 1)
         IN  IF ~r.ok THEN [ok |-> FALSE]
             ELSE DeserializeKeys(s, r.next, n - 1,
                                  Put(m, s[pos], r.value))

DeserializeEntries(s) ==
    IF Len(s) = 0 \/ s[1] < 0 THEN [ok |-> FALSE]
    ELSE DeserializeKeys(s, 2, s[1], <<>>)

(***************************************************************************)
(* SpecEntry: two quant_entry_t objects driven through the descriptor's    *)
(* own interface.                                                          *)
(***************************************************************************)
Objs == {1, 2}

\* calls counts the calls that have written a descriptor so far: a bag of the
\* pairs <<member function, object>> (SpecEntry) or <<member function,
\* argument id>> (SpecSet, where a call that returns an error writes nothing).
Logged(name, target) == calls' = calls (+) SetToBag({<<name, target>>})

InitEntry ==
    /\ objs = [i \in Objs |-> QuantEntryNew]
    /\ policy = "scales"
    /\ entries = <<>>
    /\ last = "success"
    /\ nops = 0
    /\ calls = EmptyBag

EntryStep(i, e) ==
    /\ nops < MaxEntryOps
    /\ nops' = nops + 1
    /\ objs' = [objs EXCEPT ![i] = e]
    /\ last' = "success"
    /\ UNCHANGED <<policy, entries>>

DoEntrySet ==
    \E i \in Objs, mask \in Masks, dt \in DataTypes, nd \in Ranks :
        \E dims \in DimsOfRank(nd) :
            EntryStep(i, EntrySet(objs[i], mask, dt, nd, dims))
                /\ Logged("set", i)

DoEntrySetScales ==
    \E i \in Objs, mask \in Masks, dt \in DataTypes, nd \in Ranks :
        \E dims \in DimsOfRank(nd) :
            EntryStep(i, EntrySetScales(objs[i], dims, nd, dt, mask))
                /\ Logged("set_scales", i)

DoEntrySetZeroPoints ==
    \E i \in Objs, dt \in DataTypes, nd \in Ranks :
        \E dims \in DimsOfRank(nd) :
            EntryStep(i, EntrySetZeroPoints(objs[i], dims, nd, dt))
                /\ Logged("set_zero_points", i)

DoEntrySetZeroPointsGrouped ==
    \E i \in Objs, mask \in Masks, dt \in DataTypes, nd \in Ranks :
        \E dims \in DimsOfRank(nd) :
            EntryStep(i, EntrySetZeroPointsGrouped(objs[i], dims, nd, dt, mask))
                /\ Logged("set_zero_points_grouped", i)

\* objs[i] = objs[j], and objs[i] = default_quant_entry()
DoEntryAssign ==
    \E i \in Objs :
        \E other \in {objs[j] : j \in Objs \ {i}} \cup {default_quant_entry} :
            EntryStep(i, EntryAssign(objs[i], other)) /\ Logged("assign", i)

NextEntry ==
    \/ DoEntrySet
    \/ DoEntrySetScales
    \/ DoEntrySetZeroPoints
    \/ DoEntrySetZeroPointsGrouped
    \/ DoEntryAssign

SpecEntry == InitEntry /\ [][NextEntry]_vars

(***************************************************************************)
(* SpecSet: one scales_t or zero_points_t object driven through the        *)
(* container's mutators.  last is the status the last call returned.       *)
(***************************************************************************)
\* The argument ids the calls are made with.
CallArgs == {DNNL_ARG_SRC_1, DNNL_ARG_DST, DNNL_ARG_WEIGHTS, 999}

InitSet ==
    /\ objs = [i \in Objs |-> QuantEntryNew]
    /\ policy \in Policies
    /\ entries = <<>>
    /\ last = "success"
    /\ nops = 0
    /\ calls = EmptyBag

SetStep(name, arg, r) ==
    /\ nops < MaxSetOps
    /\ nops' = nops + 1
    /\ last' = r[1]
    /\ entries' = r[2]
    /\ IF r[1] = "success" THEN Logged(name, arg) ELSE UNCHANGED calls
    /\ UNCHANGED <<objs, policy>>

DoSet(arg, mask, dt, nd, dims) ==
    SetStep("set", arg, VirtualSet(policy, entries, arg, mask, dt, nd, dims))

DoSetMask(arg, mask) ==
    SetStep("set_mask", arg, SetMask(policy, entries, arg, mask))

DoSetScales(arg, dims, nd, dt) ==
    SetStep("set_scales", arg,
            SetScales(policy, entries, arg, dims, nd, dt))

DoSetZeroPoints(arg, dims, nd, dt) ==
    SetStep("set_zero_points", arg,
            SetZeroPoints(entries, arg, dims, nd, dt))

DoAssign(arg, other) ==
    SetStep("assign", arg, AssignEntry(entries, arg, other))

NextSet ==
    \/ \E arg \in CallArgs, mask \in Masks, dt \in SetDataTypes, nd \in Ranks :
          \E dims \in DimsOfRank(nd) : DoSet(arg, mask, dt, nd, dims)
    \/ \E arg \in CallArgs, mask \in Masks : DoSetMask(arg, mask)
    \/ \E arg \in CallArgs, dt \in SetDataTypes, nd \in Ranks :
          \E dims \in DimsOfRank(nd) : DoSetScales(arg, dims, nd, dt)
    \/ \E arg \in CallArgs, dt \in SetDataTypes, nd \in Ranks :
          \E dims \in DimsOfRank(nd) : DoSetZeroPoints(arg, dims, nd, dt)
    \/ \E arg \in CallArgs :
          \E other \in {get(entries, k) : k \in CallArgs} : DoAssign(arg, other)

SpecSet == InitSet /\ [][NextSet]_vars

(***************************************************************************)
(* Properties of quant_entry_t, checked under SpecEntry.                   *)
(***************************************************************************)
NoFlagSet(e) == ~e.is_set_ /\ ~e.is_set_scale /\ ~e.is_set_wei

\* a and b agree on the type bitset and on every channel's flag, mask, data
\* type, rank and dims sequence (the first rank sizes).
SameChannels(a, b) ==
    /\ a.type_ = b.type_
    /\ a.is_set_ = b.is_set_ /\ a.mask_ = b.mask_
    /\ a.data_type_ = b.data_type_ /\ a.group_ndims_ = b.group_ndims_
    /\ \A d \in DimIdx : d < b.group_ndims_ => a.group_dims_[d] = b.group_dims_[d]
    /\ a.is_set_scale = b.is_set_scale /\ a.mask_scale = b.mask_scale
    /\ a.data_type_scale = b.data_type_scale /\ a.ndims_scale = b.ndims_scale
    /\ \A d \in DimIdx : d < b.ndims_scale => a.dims_scale[d] = b.dims_scale[d]
    /\ a.is_set_wei = b.is_set_wei /\ a.mask_wei = b.mask_wei
    /\ a.data_type_wei = b.data_type_wei /\ a.ndims_wei = b.ndims_wei
    /\ \A d \in DimIdx : d < b.ndims_wei => a.dims_wei[d] = b.dims_wei[d]

\* C1: after a.set(b) (operator=), a is structurally equal to b: the type
\* bitset and every channel's flag, mask, data type, rank and dims sequence of
\* a match those of b, and a == b holds.
C1_AssignMakesEqual ==
    [][\A i \in Objs : \A j \in Objs \ {i} :
          EntryStep(i, EntryAssign(objs[i], objs[j]))
              => /\ SameChannels(objs'[i], objs[j])
                 /\ EntryEq(objs'[i], objs[j])]_vars

\* C2: the channel-less accessors resolve zero-point channel, then native
\* channel (dims and rank being the group shape), then scale channel, then the
\* default (INT_MIN, undef, rank 0); a descriptor with only the scale channel
\* set reports the scale channel's values, and set(mask = 1, rank 0) on it
\* makes it report mask 1.
C2_Precedence(e) ==
    /\ e.is_set_wei =>
          /\ get_mask(e) = e.mask_wei /\ get_data_type(e) = e.data_type_wei
          /\ get_dims(e) = e.dims_wei /\ get_ndims(e) = e.ndims_wei
    /\ (~e.is_set_wei /\ e.is_set_) =>
          /\ get_mask(e) = e.mask_ /\ get_data_type(e) = e.data_type_
          /\ get_dims(e) = e.group_dims_ /\ get_ndims(e) = e.group_ndims_
    /\ (~e.is_set_wei /\ ~e.is_set_ /\ e.is_set_scale) =>
          /\ get_mask(e) = e.mask_scale /\ get_data_type(e) = e.data_type_scale
          /\ get_dims(e) = e.dims_scale /\ get_ndims(e) = e.ndims_scale
          /\ \A dt \in DataTypes :
                get_mask(EntrySet(e, 1, dt, 0, ZeroDims)) = 1
    /\ NoFlagSet(e) =>
          /\ get_mask(e) = INT_MIN /\ get_data_type(e) = "undef"
          /\ get_ndims(e) = 0

C2_AccessorPrecedence == \A i \in Objs : C2_Precedence(objs[i])

\* A descriptor whose scale channel was set with mask 2, rank 1, dims [4] and
\* whose native channel was then set with mask 1, rank 0: it reports mask 1
\* while the scale channel still holds mask 2 and dims [4].
C2_Witness ==
    \E i \in Objs :
        LET e == objs[i]
        IN  /\ e.is_set_scale /\ e.is_set_ /\ ~e.is_set_wei
            /\ e.mask_scale = 2 /\ e.ndims_scale = 1 /\ e.dims_scale[0] = 4
            /\ e.mask_ = 1 /\ e.group_ndims_ = 0
            /\ get_mask(e) = 1

\* C3: a descriptor equals the default sentinel iff none of its three flags is
\* set, and a freshly constructed descriptor has no flag set, type NONE and
\* equals the sentinel.
C3_DefaultIffNoFlag ==
    /\ \A i \in Objs : EntryHasDefaultValues(objs[i]) <=> NoFlagSet(objs[i])
    /\ nops = 0 =>
          \A i \in Objs : /\ NoFlagSet(objs[i]) /\ objs[i].type_ = NONE
                          /\ EntryHasDefaultValues(objs[i])

\* A descriptor that was configured and then assigned the sentinel: no flag is
\* set and it equals the sentinel, though its arrays still hold the old sizes.
C3_Witness ==
    \E i \in Objs :
        /\ NoFlagSet(objs[i]) /\ EntryHasDefaultValues(objs[i])
        /\ objs[i] # QuantEntryNew

\* C7: get_group(d) is 1 for every d when the native group rank is zero;
\* otherwise it is the configured (non-zero) size for d inside the group rank
\* and 0 for d at or beyond it; the flags have no part in the result.
C7_Group(e) ==
    \A d \in 0 .. (MaxNdims + 1) :
        /\ e.group_ndims_ = 0 => get_group(e, d) = 1
        /\ (e.group_ndims_ > 0 /\ d < e.group_ndims_) =>
              get_group(e, d) = e.group_dims_[d] /\ get_group(e, d) > 0
        /\ (e.group_ndims_ > 0 /\ d >= e.group_ndims_) => get_group(e, d) = 0
        /\ \A f1, f2, f3 \in BOOLEAN :
              get_group([e EXCEPT !.is_set_ = f1, !.is_set_scale = f2,
                                  !.is_set_wei = f3], d) = get_group(e, d)

C7_GroupLookup == \A i \in Objs : C7_Group(objs[i])

\* A descriptor of group rank 2: the lookup at 2 is 0, at 0 the first size.
C7_Witness ==
    \E i \in Objs :
        /\ objs[i].group_ndims_ = 2
        /\ get_group(objs[i], 2) = 0
        /\ get_group(objs[i], 0) = 2 /\ get_group(objs[i], 1) = 3

(***************************************************************************)
(* Properties of quant_entries_t and its policies, checked under SpecSet.  *)
(***************************************************************************)
\* The ids the scale policy is documented to accept.
ScaleAccepts(arg) ==
    \/ arg \in {DNNL_ARG_SRC, DNNL_ARG_WEIGHTS, DNNL_ARG_DST,
                DNNL_ARG_SRC_1, DNNL_ARG_SRC_2}
    \/ (arg \div 1024) % 2 = 1
    \/ arg \in {DNNL_ARG_ATTR_POST_OP_DW + DNNL_ARG_SRC,
                DNNL_ARG_ATTR_POST_OP_DW + DNNL_ARG_WEIGHTS,
                DNNL_ARG_ATTR_POST_OP_DW + DNNL_ARG_DST}

\* The ids the zero-point policy is documented to accept.
ZeroPointAccepts(arg) ==
    arg \in {DNNL_ARG_SRC, DNNL_ARG_WEIGHTS, DNNL_ARG_DST, DNNL_ARG_SRC_2}

Accepts(p, arg) == IF p = "scales" THEN ScaleAccepts(arg) ELSE ZeroPointAccepts(arg)

\* Ids the two predicates are compared on: the well-known ids, their
\* neighbours, and combinations with the MULTIPLE_SRC and POST_OP_DW bits.
ProbeArgs ==
    (0 .. 40) \cup {999, 1023, 1024, 1025, 1057, 2047, 2048, 2049, 3072, 3105,
                    4096, 8192, 16384, 16385, 16386, 16387, 16401, 16417,
                    16418, 17408, 32768, 32769}

\* What a gated setter called with arg on the current map must return:
\* r is <<status, entries_>> after the call.
GatedOutcome(arg, r) ==
    IF Accepts(policy, arg)
    THEN r[1] = "success" /\ arg \in DOMAIN r[2]
    ELSE r[1] = "invalid_arguments" /\ r[2] = entries

\* C4: set(arg, ...) and set_scales(arg, ...) return invalid_arguments and
\* leave the map as it was exactly when the policy rejects arg, and return
\* success otherwise; the scale policy accepts exactly SRC, WEIGHTS, DST,
\* SRC_1, SRC_2, ids with the MULTIPLE_SRC bit and POST_OP_DW | SRC/WEIGHTS/DST
\* (not 999), the zero-point policy exactly SRC, WEIGHTS, DST, SRC_2.  Stated
\* of every call that can be made in the current state.
C4_ValidityGate ==
    /\ \A arg \in ProbeArgs : check_arg(policy, arg) <=> Accepts(policy, arg)
    /\ ~check_arg("scales", 999)
    /\ \A arg \in CallArgs :
          /\ \A mask \in Masks, dt \in SetDataTypes, nd \in Ranks :
                \A dims \in DimsOfRank(nd) :
                    GatedOutcome(arg, VirtualSet(policy, entries, arg, mask,
                                                 dt, nd, dims))
          /\ \A mask \in Masks :
                GatedOutcome(arg, SetMask(policy, entries, arg, mask))
          /\ \A dt \in SetDataTypes, nd \in Ranks :
                \A dims \in DimsOfRank(nd) :
                    GatedOutcome(arg, SetScales(policy, entries, arg, dims,
                                                nd, dt))

\* A call was rejected after an earlier one had succeeded: the map still
\* holds exactly what the earlier call stored.
C4_Witness ==
    /\ last = "invalid_arguments" /\ nops = 2
    /\ DOMAIN entries # {} /\ \A k \in DOMAIN entries : check_arg(policy, k)

C6_GroupedCrossWrite ==
    [][\A mask \in Masks, dt \in SetDataTypes, nd \in Ranks :
        \A dims \in DimsOfRank(nd) :
          (policy = "zero_points" /\ DoSet(DNNL_ARG_WEIGHTS, mask, dt, nd, dims))
              => LET e == get(entries', DNNL_ARG_WEIGHTS)
                 IN  /\ last' = "success"
                     /\ e.is_set_wei /\ e.mask_wei = mask
                     /\ e.data_type_wei = dt /\ e.ndims_wei = nd
                     /\ \A d \in DimIdx : d < nd => e.dims_wei[d] = dims[d]
                     /\ e.group_ndims_ = nd
                     /\ \A d \in DimIdx : d < nd => get_group(e, d) = dims[d]]_vars

\* The vectors handed in as supported_args: up to two ids, repeats included.
SupportedArgs ==
    {<<>>} \cup {<<x>> : x \in CallArgs} \cup {<<x, y>> : x, y \in CallArgs}

Elems(sq) == {sq[idx] : idx \in 1 .. Len(sq)}

\* C8: has_default_values(supported_args) (has_default_groups) is true iff
\* every stored entry whose id is not in supported_args has default values
\* (default groups).
C8_SupportedArgsExempt ==
    \A sup \in SupportedArgs :
        /\ has_default_values(entries, sup)
              <=> \A k \in DOMAIN entries \ Elems(sup) :
                      EntryEq(entries[k], default_quant_entry)
        /\ has_default_groups(entries, sup)
              <=> \A k \in DOMAIN entries \ Elems(sup) :
                      entries[k].group_ndims_ = 0

\* The only non-default entry is at WEIGHTS, beside a stored default one:
\* true with WEIGHTS supported, false with nothing supported.
C8_Witness ==
    /\ Cardinality(DOMAIN entries) = 2
    /\ DNNL_ARG_WEIGHTS \in DOMAIN entries
    /\ \A k \in DOMAIN entries :
          EntryHasDefaultValues(entries[k]) <=> k # DNNL_ARG_WEIGHTS
    /\ has_default_values(entries, <<DNNL_ARG_WEIGHTS>>)
    /\ ~has_default_values(entries, <<>>)

\* What the per-argument queries return for arg.
Queries(m, arg) ==
    [ has_default_values |-> EntryHasDefaultValues(get(m, arg)),
      has_default_groups |-> EntryHasDefaultGroups(get(m, arg)),
      mask |-> get_mask(get(m, arg)),
      data_type |-> get_data_type(get(m, arg)),
      ndims |-> get_ndims(get(m, arg)),
      group |-> [d \in 0 .. MaxNdims |-> get_group(get(m, arg), d)] ]

Without(m, arg) == [k \in (DOMAIN m) \ {arg} |-> m[k]]

Called(i, name) == BagIn(<<name, i>>, calls)

\* Object i has only been written by the four setters since construction.
SettersOnly(i) == ~Called(i, "assign")

TypeBits == {DNNL, OV_SCALES, OV_ZERO_POINTS}

\* Every bit of e.type_ is still set in f.type_.
KeepsBits(e, f) == \A b \in TypeBits : BitSet(e.type_, b) => BitSet(f.type_, b)

Setters == {"set", "set_scales", "set_zero_points", "set_zero_points_grouped"}

\* The step is a setter call and clears no bit of type_.
SetterKeepsBits ==
    \A i \in Objs, name \in Setters :
        Logged(name, i) => KeepsBits(objs[i], objs'[i])

\* What type_ records, as claimed: the channels.
RecordsChannels(i) ==
    /\ BitSet(objs[i].type_, DNNL) <=> Called(i, "set")
    /\ BitSet(objs[i].type_, OV_SCALES) <=> Called(i, "set_scales")
    /\ BitSet(objs[i].type_, OV_ZERO_POINTS)
          <=> \/ Called(i, "set_zero_points")
              \/ Called(i, "set_zero_points_grouped")

\* What type_ records: the setters.
RecordsSetters(i) ==
    /\ BitSet(objs[i].type_, DNNL)
          <=> \/ Called(i, "set")
              \/ Called(i, "set_zero_points_grouped")
    /\ BitSet(objs[i].type_, OV_SCALES) <=> Called(i, "set_scales")
    /\ BitSet(objs[i].type_, OV_ZERO_POINTS) <=> Called(i, "set_zero_points")

\* C11 as claimed: on a descriptor written only by setters since construction
\* the DNNL bit of type_ is set iff set(mask, ...) was called, the OV_SCALES
\* bit iff set_scales was called, and the OV_ZERO_POINTS bit iff one of the two
\* set_zero_points overloads was called; no setter clears a bit.
C11_TypeRecordsChannels ==
    /\ [](\A i \in Objs : SettersOnly(i) => RecordsChannels(i))
    /\ [][SetterKeepsBits]_vars

\* C11 as amended: on a descriptor written only by setters since construction
\* the DNNL bit of type_ is set iff set(mask, ...) or the grouped
\* set_zero_points was called, the OV_SCALES bit iff set_scales was called, and
\* the OV_ZERO_POINTS bit iff the plain set_zero_points was called; no setter
\* clears a bit.
C11_TypeRecordsSetters ==
    /\ [](\A i \in Objs : SettersOnly(i) => RecordsSetters(i))
    /\ [][SetterKeepsBits]_vars

\* A descriptor written by the grouped set_zero_points and then by set_scales:
\* type_ is DNNL | OV_SCALES although set(mask, ...) was never called.
C11_Witness ==
    \E i \in Objs :
        /\ {c[1] : c \in {d \in BagToSet(calls) : d[2] = i}}
              = {"set_zero_points_grouped", "set_scales"}
        /\ objs[i].type_ = DNNL + OV_SCALES
        /\ objs[i].is_set_wei /\ objs[i].is_set_scale /\ ~objs[i].is_set_

(***************************************************************************)
(* The channels a setter writes, checked under SpecEntry.                  *)
(***************************************************************************)
NativeChannel(e) ==
    <<e.is_set_, e.mask_, e.data_type_, e.group_ndims_, e.group_dims_>>

ScaleChannel(e) ==
    <<e.is_set_scale, e.mask_scale, e.data_type_scale, e.ndims_scale,
      e.dims_scale>>

ZeroPointChannel(e) ==
    <<e.is_set_wei, e.mask_wei, e.data_type_wei, e.ndims_wei, e.dims_wei>>

\* The step is a call of a setter on object i that leaves the channels the
\* setter is not about as they were.
SetterFrame(i) ==
    LET e == objs[i]
        f == objs'[i]
    IN  /\ Logged("set", i) =>
              /\ ScaleChannel(f) = ScaleChannel(e)
              /\ ZeroPointChannel(f) = ZeroPointChannel(e)
        /\ Logged("set_scales", i) =>
              /\ NativeChannel(f) = NativeChannel(e)
              /\ ZeroPointChannel(f) = ZeroPointChannel(e)
        /\ Logged("set_zero_points", i) =>
              /\ NativeChannel(f) = NativeChannel(e)
              /\ ScaleChannel(f) = ScaleChannel(e)
        /\ Logged("set_zero_points_grouped", i) =>
              /\ ScaleChannel(f) = ScaleChannel(e)
              /\ f.is_set_ = e.is_set_ /\ f.mask_ = e.mask_
              /\ f.data_type_ = e.data_type_
              /\ f.ndims_wei > 0 =>
                    /\ f.group_ndims_ = f.ndims_wei
                    /\ \A d \in DimIdx :
                          d < f.ndims_wei => f.group_dims_[d] = f.dims_wei[d]

\* C13: set(mask, ...) leaves the flag, mask, data type, rank and dims of the
\* scale and the zero-point channel unchanged, set_scales those of the native
\* and the zero-point channel, the plain set_zero_points those of the native
\* and the scale channel; the grouped set_zero_points leaves the scale channel
\* and the native flag, mask and data type unchanged and is the only setter
\* that writes another channel's fields, the native group rank and sizes.
C13_ChannelFrame == [][\A i \in Objs : SetterFrame(i)]_vars

\* set_scales and then the plain set_zero_points were called on a descriptor:
\* the scale channel still holds what set_scales wrote and the native channel
\* is as constructed.
C13_Witness ==
    \E i \in Objs :
        LET e == objs[i]
        IN  /\ Called(i, "set_scales") /\ Called(i, "set_zero_points")
            /\ ~Called(i, "assign") /\ ~Called(i, "set")
            /\ ~Called(i, "set_zero_points_grouped")
            /\ e.is_set_scale /\ e.mask_scale = 2 /\ e.ndims_scale = 1
            /\ e.dims_scale[0] = 4
            /\ e.is_set_wei /\ e.ndims_wei = 2 /\ e.dims_wei[0] = 2
            /\ NativeChannel(e) = NativeChannel(QuantEntryNew)

(***************************************************************************)
(* Validity of the stored argument ids, checked under SpecSet.             *)
(***************************************************************************)
\* The ids whose stored descriptor is not == default_quant_entry().
Configured(m) == {k \in DOMAIN m : ~EntryHasDefaultValues(m[k])}

\* C12 as claimed: in every state reached from an empty scales_t or
\* zero_points_t by set(arg, mask, ...), set(arg, mask), set_scales,
\* set_zero_points and set(arg, other), every id whose stored descriptor is not
\* == default_quant_entry() is accepted by the policy's check_arg.
C12_ConfiguredArgsValid ==
    \A k \in Configured(entries) : check_arg(policy, k)

\* C12 as amended: in every such state, every id whose stored descriptor is
\* not == default_quant_entry() is accepted by the policy's check_arg or has
\* been written by set(arg, other), which does not call check_arg.
C12_ConfiguredArgsValidOrAssigned ==
    \A k \in Configured(entries) :
        check_arg(policy, k) \/ Called(k, "assign")

\* A set holding a configured entry under an accepted id, written by a gated
\* setter, and a copy of it that set(arg, other) stored under a rejected id.
C12_Witness ==
    \E k \in Configured(entries), r \in Configured(entries) :
        /\ check_arg(policy, k) /\ ~Called(k, "assign")
        /\ ~check_arg(policy, r) /\ Called(r, "assign")
        /\ EntryEq(entries[r], entries[k])

====
